---- MODULE Spec2Model ----
(***************************************************************************)
(* Model of src/lib.rs of eagerly: a View<V> over an ArcSwap<V> cell that  *)
(* is loaded once by Builder::load and then replaced by a background task  *)
(* on every tick of a Ticker.                                              *)
(*                                                                         *)
(* Threads: the caller of load(), the spawned smol::Task (the refresh      *)
(* loop), and NumReaders reader threads that call View::read, clone Views  *)
(* and drop them.  ArcSwap::new/load/store and Arc::clone are atomic       *)
(* operations of the arc-swap and std crates; the task is suspended only   *)
(* at its two await points (tick.next().await, load.refresh().await), and  *)
(* dropping the last Arc<Task> drops the smol::Task, which cancels it.     *)
(***************************************************************************)
EXTENDS Integers, Sequences, FiniteSets, TLC

\* ---------------------------------------------------------------- bounds
MaxHandles == 2        \* Views alive at once: the one load() returns and its clones
NumReaders == 2        \* threads calling read()
MaxInvocations == 3    \* invocations of the refresh source (the first is load's)

Handles == 1..MaxHandles
Readers == 1..NumReaders
CellIds == 0..MaxHandles

\* ------------------------------------------------------------ data types
\* Option::None of Builder.frequency; Some(d) is the number d
NoFreq == -1
\* a Duration is unsigned: zero or positive
FreqValues == {0, 1}
\* no ArcSwap allocated / referenced
NoRef == -1
\* Builder fields after `load` and `freq` have been moved into the task
Moved == [refresh |-> FALSE, frequency |-> NoFreq]
\* the refresh sources of the tests and of the spec's scenarios
SourceKinds == {"increasing", "constant", "alternating"}

\* An Arc<V>: the allocation made by Arc::new(value); id is the invocation of
\* the refresh source that produced it (the identity of the allocation).
NoValue == [id |-> 0, val |-> 0]
ArcNew(n, v) == [id |-> n, val |-> v]

\* ------------------------------------------------------------- variables
VARIABLES
    builder,      \* Builder { refresh, frequency }
    source,       \* which refresh source the builder was given
    loadpc,       \* position of the caller inside Builder::load
    invocations,  \* number of calls of load.refresh() so far
    outputs,      \* the values the refresh source has returned, in order
    cells,        \* heap of ArcSwap<V>: cell id -> current Arc<V>
    write,        \* the Arc<ArcSwap<V>> moved into the task
    read,         \* load's local `read`
    vstate,       \* per View slot: "free" | "live"
    value,        \* per View handle: View.value, the cell it refers to
    taskpc,       \* position of the spawned refresh task
    cancelled,    \* the smol::Task has been dropped
    pending,      \* the task's local `value` between refresh and store
    storeLog,     \* the Arc<V>s stored by the task, in order
    rpc,          \* per reader: "idle" | "called" | "holding"
    rview,        \* per reader: the View it is calling read() on (&self)
    guard,        \* per reader: the Guard returned by read()
    callStores,   \* per reader: stores completed when read() was called
    strong        \* per Arc<V> (by id): its strong count, 0 once dropped

vars == <<builder, source, loadpc, invocations, outputs, cells, write, read,
          vstate, value, taskpc, cancelled, pending, storeLog,
          rpc, rview, guard, callStores, strong>>

loadVars == <<builder, source, loadpc, read>>
viewVars == <<vstate, value>>
taskVars == <<taskpc, pending, storeLog, write>>
readerVars == <<rpc, rview, guard, callStores>>

\* ------------------------------------------------------------ operators
Last(s) == IF Len(s) = 0 THEN 0 ELSE s[Len(s)]

\* The values an invocation of the refresh source may return, given what it
\* returned before (Refresh::refresh of the closure given to view()).
Produce(kind, outs) ==
    CASE kind = "increasing" -> {Last(outs) + 1}
      [] kind = "constant"   -> {0}
      [] OTHER               -> {1 - Last(outs)}

\* The set of live View handles
Live == {h \in Handles : vstate[h] = "live"}

\* variant: the Task is detached, dropping the handles leaves it running
TaskDetached(remaining) == FALSE

\* variant: each View owns the Task itself, so dropping any View cancels it
TaskDroppedByAnyView(remaining) == TRUE

\* Arc<Task> strong count reaching zero drops the Task, which cancels it
TaskDropped(remaining) == remaining = {}

\* ArcSwap::load through a View
ArcSwapLoad(h) == cells[value[h]]

\* the task's future, which owns `write`, exists: it has not completed,
\* panicked or been cancelled at an await point
TaskHoldsWrite ==
    /\ taskpc \in {"awaitTick", "awaitRefresh", "store"}
    /\ cancelled => taskpc = "store"

\* strong count of the Arc<ArcSwap<V>>: the Views, load's local `read` and
\* the task's `write`
CellOwners ==
    Cardinality(Live) + (IF loadpc = "spawned" THEN 1 ELSE 0)
                      + (IF TaskHoldsWrite THEN 1 ELSE 0)

\* Arc::clone / Arc::drop of an Arc<V>
Inc(s, i) == [s EXCEPT ![i] = @ + 1]
Dec(s, i) == [s EXCEPT ![i] = @ - 1]

\* a step that drops the last owner of the ArcSwap drops the ArcSwap, which
\* drops the Arc<V> it holds
ReleaseCell(s) ==
    IF CellOwners > 0 /\ CellOwners' = 0 THEN Dec(s, cells'[write'].id) ELSE s

\* ------------------------------------------------------------------ Init
\* view(r) gives Builder { refresh: Some(r), frequency: None };
\* Builder::default() gives Builder { refresh: None, frequency: None }.
Init ==
    /\ builder \in [refresh : BOOLEAN, frequency : {NoFreq}]
    /\ source \in SourceKinds
    /\ loadpc = "builder"
    /\ invocations = 0
    /\ outputs = <<>>
    /\ cells = [c \in CellIds |-> NoValue]
    /\ write = NoRef
    /\ read = NoRef
    /\ vstate = [h \in Handles |-> "free"]
    /\ value = [h \in Handles |-> NoRef]
    /\ taskpc = "none"
    /\ cancelled = FALSE
    /\ pending = NoValue
    /\ storeLog = <<>>
    /\ rpc = [r \in Readers |-> "idle"]
    /\ rview = [r \in Readers |-> 0]
    /\ guard = [r \in Readers |-> NoValue]
    /\ callStores = [r \in Readers |-> 0]
    /\ strong = [i \in 1..MaxInvocations |-> 0]

\* --------------------------------------------------------------- Builder
\* Builder::frequency
Frequency(d) ==
    /\ loadpc = "builder"
    /\ builder' = [builder EXCEPT !.frequency = d]
    /\ UNCHANGED <<source, loadpc, invocations, outputs, cells, write, read>>
    /\ UNCHANGED <<viewVars, taskpc, cancelled, pending, storeLog, readerVars>>
    /\ UNCHANGED strong

\* variant: the cell is allocated empty and the task spawned before the
\* initial refresh is awaited
LoadCallSpawnsFirst ==
    /\ loadpc = "builder"
    /\ IF builder.refresh /\ builder.frequency # NoFreq
          THEN /\ loadpc' = "awaiting"
               /\ invocations' = invocations + 1
               /\ write' = 0
               /\ taskpc' = "awaitTick"
          ELSE /\ loadpc' = "panicked"
               /\ UNCHANGED <<invocations, write, taskpc>>
    /\ UNCHANGED <<builder, source, outputs, cells, read>>
    /\ UNCHANGED <<viewVars, cancelled, pending, storeLog, readerVars>>
    /\ UNCHANGED strong

\* Builder::load, up to the first await: the match and load.refresh()
LoadCall ==
    /\ loadpc = "builder"
    /\ IF builder.refresh /\ builder.frequency # NoFreq
          THEN /\ loadpc' = "awaiting"
               /\ invocations' = invocations + 1
          ELSE /\ loadpc' = "panicked"
               /\ UNCHANGED invocations
    /\ UNCHANGED <<builder, source, outputs, cells, write, read>>
    /\ UNCHANGED <<viewVars, taskpc, cancelled, pending, storeLog, readerVars>>
    /\ UNCHANGED strong

\* variant: `read` is a second ArcSwap holding the same Arc, not write.clone()
LoadPublishSeparateCell(v) ==
    /\ loadpc = "awaiting"
    /\ v \in Produce(source, outputs)
    /\ outputs' = Append(outputs, v)
    /\ cells' = [cells EXCEPT ![0] = ArcNew(invocations, v),
                              ![1] = ArcNew(invocations, v)]
    /\ write' = 0
    /\ read' = 1
    /\ taskpc' = "awaitTick"
    /\ loadpc' = "spawned"
    /\ builder' = Moved
    /\ UNCHANGED <<source, invocations>>
    /\ UNCHANGED <<viewVars, cancelled, pending, storeLog, readerVars>>
    /\ strong' = [strong EXCEPT ![invocations] = 2]

\* variant: the spawned loop refreshes at once instead of waiting for the
\* first tick
LoadPublishRefreshingAtOnce(v) ==
    /\ loadpc = "awaiting"
    /\ v \in Produce(source, outputs)
    /\ outputs' = Append(outputs, v)
    /\ cells' = [cells EXCEPT ![0] = ArcNew(invocations, v)]
    /\ write' = 0
    /\ read' = 0
    /\ taskpc' = "awaitRefresh"
    /\ invocations' = invocations + 1
    /\ loadpc' = "spawned"
    /\ builder' = Moved
    /\ UNCHANGED source
    /\ UNCHANGED <<viewVars, cancelled, pending, storeLog, readerVars>>
    /\ strong' = [strong EXCEPT ![invocations] = 1]

\* the initial refresh completes with v: ArcSwap::new, write.clone(),
\* Task::spawn, which moves `load`, `freq` and `write` into the task
LoadPublish(v) ==
    /\ loadpc = "awaiting"
    /\ v \in Produce(source, outputs)
    /\ outputs' = Append(outputs, v)
    /\ cells' = [cells EXCEPT ![0] = ArcNew(invocations, v)]
    /\ write' = 0
    /\ read' = 0
    /\ taskpc' = "awaitTick"
    /\ loadpc' = "spawned"
    /\ builder' = Moved
    /\ UNCHANGED <<source, invocations>>
    /\ UNCHANGED <<viewVars, cancelled, pending, storeLog, readerVars>>
    /\ strong' = [strong EXCEPT ![invocations] = 1]

\* the initial refresh panics: load() unwinds
LoadRefreshPanics ==
    /\ loadpc = "awaiting"
    /\ loadpc' = "panicked"
    /\ UNCHANGED <<builder, source, invocations, outputs, cells, write, read>>
    /\ UNCHANGED <<viewVars, taskpc, cancelled, pending, storeLog, readerVars>>
    /\ UNCHANGED strong

\* load() returns View { ticker: Arc::new(ticker), value: read }
LoadReturn ==
    /\ loadpc = "spawned"
    /\ loadpc' = "returned"
    /\ vstate' = [vstate EXCEPT ![1] = "live"]
    /\ value' = [value EXCEPT ![1] = read]
    /\ UNCHANGED <<builder, source, read, invocations, outputs, cells>>
    /\ UNCHANGED <<taskVars, cancelled, readerVars>>
    /\ UNCHANGED strong

\* ---------------------------------------------------------- refresh task
\* variant: the loop takes the current value out of the cell while it
\* refreshes
TickerFiresTakingValue ==
    /\ taskpc = "awaitTick"
    /\ ~cancelled
    /\ invocations < MaxInvocations
    /\ invocations' = invocations + 1
    /\ taskpc' = "awaitRefresh"
    /\ cells' = [cells EXCEPT ![write] = NoValue]
    /\ UNCHANGED <<loadVars, outputs, write, pending, storeLog>>
    /\ UNCHANGED <<viewVars, cancelled, readerVars>>
    /\ UNCHANGED strong

\* variant: on a tick the loop re-publishes a copy of the current value
\* before it refreshes
TickerFiresRepublishing ==
    /\ taskpc = "awaitTick"
    /\ ~cancelled
    /\ invocations < MaxInvocations
    /\ invocations' = invocations + 1
    /\ taskpc' = "awaitRefresh"
    /\ cells' = [cells EXCEPT ![write] = ArcNew(-1, cells[write].val)]
    /\ UNCHANGED <<loadVars, outputs, write, pending, storeLog>>
    /\ UNCHANGED <<viewVars, cancelled, readerVars>>
    /\ UNCHANGED strong

\* variant: a tick starts a refresh although the previous one has not been
\* awaited and stored
TickerFiresOverlapping ==
    /\ taskpc \in {"awaitTick", "awaitRefresh", "store"}
    /\ ~cancelled
    /\ invocations < MaxInvocations
    /\ invocations' = invocations + 1
    /\ taskpc' = "awaitRefresh"
    /\ UNCHANGED <<loadVars, outputs, cells, write, pending, storeLog>>
    /\ UNCHANGED <<viewVars, cancelled, readerVars>>
    /\ UNCHANGED strong

\* tick.next().await yields Some: the loop body calls load.refresh()
TickerFires ==
    /\ taskpc = "awaitTick"
    /\ ~cancelled
    /\ invocations < MaxInvocations
    /\ invocations' = invocations + 1
    /\ taskpc' = "awaitRefresh"
    /\ UNCHANGED <<loadVars, outputs, cells, write, pending, storeLog>>
    /\ UNCHANGED <<viewVars, cancelled, readerVars>>
    /\ UNCHANGED strong

\* tick.next().await yields None: the while loop and the task end
TickerEnds ==
    /\ taskpc = "awaitTick"
    /\ ~cancelled
    /\ taskpc' = "done"
    /\ UNCHANGED <<loadVars, invocations, outputs, cells, write, pending, storeLog>>
    /\ UNCHANGED <<viewVars, cancelled, readerVars>>
    /\ strong' = ReleaseCell(strong)

\* variant: the refreshed value is dropped instead of stored
RefreshReadyDiscards(v) ==
    /\ taskpc = "awaitRefresh"
    /\ ~cancelled
    /\ v \in Produce(source, outputs)
    /\ outputs' = Append(outputs, v)
    /\ taskpc' = "awaitTick"
    /\ UNCHANGED <<loadVars, invocations, cells, write, pending, storeLog>>
    /\ UNCHANGED <<viewVars, cancelled, readerVars>>
    /\ UNCHANGED strong

\* variant: the loop stores the value of the previous invocation again
RefreshReadyStale(v) ==
    /\ taskpc = "awaitRefresh"
    /\ ~cancelled
    /\ v \in Produce(source, outputs)
    /\ outputs' = Append(outputs, v)
    /\ pending' = ArcNew(invocations, Last(outputs))
    /\ taskpc' = "store"
    /\ UNCHANGED <<loadVars, invocations, cells, write, storeLog>>
    /\ UNCHANGED <<viewVars, cancelled, readerVars>>
    /\ strong' = [strong EXCEPT ![invocations] = 1]

\* variant: the task is polled again after it has been cancelled
RefreshReadyIgnoringCancel(v) ==
    /\ taskpc = "awaitRefresh"
    /\ v \in Produce(source, outputs)
    /\ outputs' = Append(outputs, v)
    /\ pending' = ArcNew(invocations, v)
    /\ taskpc' = "store"
    /\ UNCHANGED <<loadVars, invocations, cells, write, storeLog>>
    /\ UNCHANGED <<viewVars, cancelled, readerVars>>
    /\ strong' = [strong EXCEPT ![invocations] = 1]

\* load.refresh().await completes with v: let value = ...
RefreshReady(v) ==
    /\ taskpc = "awaitRefresh"
    /\ ~cancelled
    /\ v \in Produce(source, outputs)
    /\ outputs' = Append(outputs, v)
    /\ pending' = ArcNew(invocations, v)
    /\ taskpc' = "store"
    /\ UNCHANGED <<loadVars, invocations, cells, write, storeLog>>
    /\ UNCHANGED <<viewVars, cancelled, readerVars>>
    /\ strong' = [strong EXCEPT ![invocations] = 1]

\* variant: the failed refresh leaves the cell emptied
RefreshPanicsEmptying ==
    /\ taskpc = "awaitRefresh"
    /\ ~cancelled
    /\ taskpc' = "panicked"
    /\ cells' = [cells EXCEPT ![write] = NoValue]
    /\ UNCHANGED <<loadVars, invocations, outputs, write, pending, storeLog>>
    /\ UNCHANGED <<viewVars, cancelled, readerVars>>
    /\ UNCHANGED strong

\* load.refresh().await panics: the task ends without a store
RefreshPanics ==
    /\ taskpc = "awaitRefresh"
    /\ ~cancelled
    /\ taskpc' = "panicked"
    /\ UNCHANGED <<loadVars, invocations, outputs, cells, write, pending, storeLog>>
    /\ UNCHANGED <<viewVars, cancelled, readerVars>>
    /\ strong' = ReleaseCell(strong)

\* variant: a store that is not atomic leaves the old payload under the new
\* allocation
StoreTorn ==
    /\ taskpc = "store"
    /\ cells' = [cells EXCEPT ![write] = [id |-> pending.id, val |-> cells[write].val]]
    /\ storeLog' = Append(storeLog, pending)
    /\ pending' = NoValue
    /\ taskpc' = "awaitTick"
    /\ UNCHANGED <<loadVars, invocations, outputs, write>>
    /\ UNCHANGED <<viewVars, cancelled, readerVars>>
    /\ strong' = ReleaseCell(Dec(strong, cells[write].id))

\* variant: the store destroys the replaced value without regard to the
\* Guards that still refer to it
StoreFreeingOld ==
    /\ taskpc = "store"
    /\ cells' = [cells EXCEPT ![write] = pending]
    /\ storeLog' = Append(storeLog, pending)
    /\ pending' = NoValue
    /\ taskpc' = "awaitTick"
    /\ UNCHANGED <<loadVars, invocations, outputs, write>>
    /\ UNCHANGED <<viewVars, cancelled, readerVars>>
    /\ strong' = ReleaseCell([strong EXCEPT ![cells[write].id] = 0])

\* variant: the store overwrites the payload of the current Arc in place, so
\* every Guard that refers to it sees the new value
StoreInPlace ==
    /\ taskpc = "store"
    /\ cells' = [cells EXCEPT ![write] = [id |-> @.id, val |-> pending.val]]
    /\ guard' = [r \in Readers |->
                    IF rpc[r] = "holding" /\ guard[r].id = cells[write].id
                       THEN [id |-> guard[r].id, val |-> pending.val]
                       ELSE guard[r]]
    /\ storeLog' = Append(storeLog, pending)
    /\ pending' = NoValue
    /\ taskpc' = "awaitTick"
    /\ UNCHANGED <<loadVars, invocations, outputs, write>>
    /\ UNCHANGED <<viewVars, cancelled, rpc, rview, callStores>>
    /\ strong' = ReleaseCell(Dec(strong, pending.id))

\* write.store(Arc::new(value)), then back to tick.next().await
Store ==
    /\ taskpc = "store"
    /\ cells' = [cells EXCEPT ![write] = pending]
    /\ storeLog' = Append(storeLog, pending)
    /\ pending' = NoValue
    /\ taskpc' = "awaitTick"
    /\ UNCHANGED <<loadVars, invocations, outputs, write>>
    /\ UNCHANGED <<viewVars, cancelled, readerVars>>
    /\ strong' = ReleaseCell(Dec(strong, cells[write].id))

\* ------------------------------------------------------------------ View
\* variant: clone copies the cell (a snapshot) instead of the Arc
CloneViewSnapshot(src, new) ==
    /\ vstate[src] = "live"
    /\ vstate[new] = "free"
    /\ \A h \in Handles : h < new => vstate[h] # "free"
    /\ vstate' = [vstate EXCEPT ![new] = "live"]
    /\ value' = [value EXCEPT ![new] = new]
    /\ cells' = [cells EXCEPT ![new] = cells[value[src]]]
    /\ UNCHANGED <<loadVars, invocations, outputs>>
    /\ UNCHANGED <<taskVars, cancelled, readerVars>>
    /\ UNCHANGED strong

\* #[derive(Clone)]: Arc::clone of value and of ticker
CloneView(src, new) ==
    /\ vstate[src] = "live"
    /\ vstate[new] = "free"
    /\ \A h \in Handles : h < new => vstate[h] # "free"
    /\ vstate' = [vstate EXCEPT ![new] = "live"]
    /\ value' = [value EXCEPT ![new] = value[src]]
    /\ UNCHANGED <<loadVars, invocations, outputs, cells>>
    /\ UNCHANGED <<taskVars, cancelled, readerVars>>
    /\ UNCHANGED strong

\* drop(View): the borrow checker forbids it while a read(&self) is running
DropView(h) ==
    /\ vstate[h] = "live"
    /\ \A r \in Readers : ~(rpc[r] = "called" /\ rview[r] = h)
    /\ vstate' = [vstate EXCEPT ![h] = "free"]
    /\ value' = [value EXCEPT ![h] = NoRef]
    /\ cancelled' = (cancelled \/ TaskDropped(Live \ {h}))
    /\ UNCHANGED <<loadVars, invocations, outputs, cells>>
    /\ UNCHANGED <<taskVars, readerVars>>
    /\ strong' = ReleaseCell(strong)

\* a thread calls View::read on handle h; idle threads are interchangeable,
\* the lowest-numbered one makes the call
ReadCall(r, h) ==
    /\ rpc[r] = "idle"
    /\ \A q \in Readers : q < r => rpc[q] # "idle"
    /\ vstate[h] = "live"
    /\ rpc' = [rpc EXCEPT ![r] = "called"]
    /\ rview' = [rview EXCEPT ![r] = h]
    /\ callStores' = [callStores EXCEPT ![r] = Len(storeLog)]
    /\ UNCHANGED guard
    /\ UNCHANGED <<loadVars, invocations, outputs, cells>>
    /\ UNCHANGED <<viewVars, taskVars, cancelled>>
    /\ UNCHANGED strong

\* variant: the cell is behind a lock the writer holds while it stores
ReadLoadLocked(r) ==
    /\ rpc[r] = "called"
    /\ taskpc # "store"
    /\ guard' = [guard EXCEPT ![r] = ArcSwapLoad(rview[r])]
    /\ rpc' = [rpc EXCEPT ![r] = "holding"]
    /\ rview' = [rview EXCEPT ![r] = 0]
    /\ UNCHANGED callStores
    /\ UNCHANGED <<loadVars, invocations, outputs, cells>>
    /\ UNCHANGED <<viewVars, taskVars, cancelled>>
    /\ strong' = Inc(strong, ArcSwapLoad(rview[r]).id)

\* variant: read() swaps the value out of the cell instead of loading it
ReadLoadTaking(r) ==
    /\ rpc[r] = "called"
    /\ guard' = [guard EXCEPT ![r] = ArcSwapLoad(rview[r])]
    /\ cells' = [cells EXCEPT ![value[rview[r]]] = NoValue]
    /\ rpc' = [rpc EXCEPT ![r] = "holding"]
    /\ rview' = [rview EXCEPT ![r] = 0]
    /\ UNCHANGED callStores
    /\ UNCHANGED <<loadVars, invocations, outputs>>
    /\ UNCHANGED <<viewVars, taskVars, cancelled>>
    /\ UNCHANGED strong

\* self.value.load() and return of the Guard
ReadLoad(r) ==
    /\ rpc[r] = "called"
    /\ guard' = [guard EXCEPT ![r] = ArcSwapLoad(rview[r])]
    /\ rpc' = [rpc EXCEPT ![r] = "holding"]
    /\ rview' = [rview EXCEPT ![r] = 0]
    /\ UNCHANGED callStores
    /\ UNCHANGED <<loadVars, invocations, outputs, cells>>
    /\ UNCHANGED <<viewVars, taskVars, cancelled>>
    /\ strong' = Inc(strong, ArcSwapLoad(rview[r]).id)

\* the caller drops the Guard
DropGuard(r) ==
    /\ rpc[r] = "holding"
    /\ rpc' = [rpc EXCEPT ![r] = "idle"]
    /\ guard' = [guard EXCEPT ![r] = NoValue]
    /\ callStores' = [callStores EXCEPT ![r] = 0]
    /\ UNCHANGED rview
    /\ UNCHANGED <<loadVars, invocations, outputs, cells>>
    /\ UNCHANGED <<viewVars, taskVars, cancelled>>
    /\ strong' = Dec(strong, guard[r].id)

\* ------------------------------------------------------------------ Next
Next ==
    \/ \E d \in FreqValues : Frequency(d)
    \/ LoadCall
    \/ \E v \in 0..MaxInvocations : LoadPublish(v)
    \/ LoadRefreshPanics
    \/ LoadReturn
    \/ TickerFires
    \/ TickerEnds
    \/ \E v \in 0..MaxInvocations : RefreshReady(v)
    \/ RefreshPanics
    \/ Store
    \/ \E src, new \in Handles : CloneView(src, new)
    \/ \E h \in Handles : DropView(h)
    \/ \E r \in Readers, h \in Handles : ReadCall(r, h)
    \/ \E r \in Readers : ReadLoad(r)
    \/ \E r \in Readers : DropGuard(r)

Spec == Init /\ [][Next]_vars

\* The executor runs a poll of the task to its next await point.
LiveSpec == Spec /\ WF_vars(Store)

\* The ticker keeps ticking and every refresh invocation completes.
ProgressSpec ==
    /\ Spec
    /\ WF_vars(TickerFires)
    /\ WF_vars(\E v \in 0..MaxInvocations : RefreshReady(v))
    /\ WF_vars(Store)

\* ---------------------------------------------------------------- claims
Holding(r) == rpc[r] = "holding"

\* the Arc<V> most recently published: the last store's, else the initial load's
Published == IF Len(storeLog) = 0 THEN ArcNew(1, outputs[1]) ELSE Last(storeLog)

\* C1: once load() has returned a View, a read through any live View yields
\* a constructed value and every Guard a read returned holds one; the cell is
\* never empty, whatever the refresh task is doing.
C1_CellNeverEmpty ==
    loadpc = "returned" =>
        /\ \A h \in Live : ArcSwapLoad(h) # NoValue
        /\ \A r \in Readers : Holding(r) => guard[r] # NoValue

\* a Guard is held while a refreshed value awaits its store
C1_Witness ==
    /\ loadpc = "returned"
    /\ taskpc = "store"
    /\ \E r \in Readers : Holding(r) /\ callStores[r] >= 1

\* C2: a read() called after the task's k-th store had completed returns the
\* Arc of the k-th store or of a later one, never an earlier store's and never
\* the initial load's.
C2_MonotonicVisibility ==
    \A r \in Readers :
        (Holding(r) /\ callStores[r] >= 1) =>
            \E j \in callStores[r]..Len(storeLog) : guard[r] = storeLog[j]

\* a read called after the first store returned the second store's value
C2_Witness ==
    \E r \in Readers :
        /\ Holding(r)
        /\ callStores[r] = 1
        /\ Len(storeLog) >= 2
        /\ guard[r] = storeLog[2]

\* C3: every Guard returned by a read is exactly one of the Arcs made from a
\* value the refresh source returned (invocation and value together), never
\* a mixture of two.
C3_NoTearing ==
    \A r \in Readers :
        Holding(r) =>
            \E i \in 1..Len(outputs) : guard[r] = ArcNew(i, outputs[i])

\* two readers hold different snapshots while a store is about to happen
C3_Witness ==
    /\ taskpc = "store"
    /\ \E r1, r2 \in Readers :
        /\ Holding(r1) /\ Holding(r2)
        /\ guard[r1].id = 1
        /\ guard[r2].id = 2

\* C4: all live Views, the original and its clones, refer to one and the same
\* cell, and a read through any of them yields the most recently published Arc.
C4_SharedVisibility ==
    loadpc = "returned" =>
        \A h, g \in Live : value[h] = value[g] /\ ArcSwapLoad(h) = Published

\* a read through the clone, called before any store, is about to return the
\* value of a store made since, and another thread holds the same value
C4_Witness ==
    \E r1, r2 \in Readers :
        /\ rpc[r1] = "called" /\ rview[r1] = 2 /\ callStores[r1] = 0
        /\ Len(storeLog) >= 1
        /\ 1 \in Live
        /\ Holding(r2) /\ guard[r2] = ArcSwapLoad(2)

\* C5: load() on a Builder without a refresh source, without a frequency, or
\* with a frequency that is not positive, never gets to spawn the refresh task
\* (and so never returns a View).
C5_ConstructionValidation ==
    [][(/\ loadpc \in {"builder", "awaiting"}
        /\ (~builder.refresh \/ builder.frequency = NoFreq \/ builder.frequency <= 0))
           => (loadpc' # "spawned" /\ taskpc' = "none")]_vars

AllDropped == loadpc = "returned" /\ Live = {}

LoopStopped ==
    \/ taskpc \in {"done", "panicked"}
    \/ cancelled /\ taskpc \in {"awaitTick", "awaitRefresh"}

\* C6: once every View has been dropped the refresh loop eventually stops for
\* good, and from the drop of the last View on the refresh source is not
\* invoked again.
C6_HandleLifetime ==
    /\ AllDropped ~> [](LoopStopped)
    /\ [][AllDropped => invocations' = invocations]_vars

\* the last View was dropped while a refresh was in flight
C6_Witness == AllDropped /\ cancelled /\ taskpc = "awaitRefresh"

\* C7: with a strictly increasing refresh source, a read that returns now,
\* through any View, never returns a smaller value than the Guard an earlier
\* read returned, through any View, to a thread that still holds it.
C7_FreshnessMonotonic ==
    [][source = "increasing" =>
        \A r, e \in Readers :
            (rpc[r] = "called" /\ rpc'[r] = "holding" /\ Holding(e)) =>
                guard'[r].val >= guard[e].val]_vars

\* with the original and a clone alive, a later read returned a greater value
\* than an earlier one whose Guard is still held
C7_Witness ==
    /\ source = "increasing"
    /\ Live = {1, 2}
    /\ \E r1, r2 \in Readers :
        /\ Holding(r1) /\ Holding(r2)
        /\ callStores[r1] < callStores[r2]
        /\ guard[r1].val < guard[r2].val

Refreshing == taskpc \in {"awaitRefresh", "store"}

\* C8: if the ticker keeps ticking and refresh invocations complete, every
\* background invocation is eventually followed by the store of its value,
\* unless the task is cancelled or the refresh panics: the task eventually
\* leaves the refresh of a tick, and it goes on to the next tick only with
\* the value of that invocation stored in the cell; and with a strictly
\* increasing source every store puts a strictly greater value in the cell.
C8_RefreshProgress ==
    /\ Refreshing ~> (~Refreshing \/ cancelled)
    /\ [][(Refreshing /\ taskpc' = "awaitTick")
              => cells'[write].id = invocations]_vars
    /\ [][(source = "increasing" /\ write # NoRef /\ cells'[write] # cells[write])
              => cells'[write].val > cells[write].val]_vars

\* the last invocation the bound allows has been stored
C8_Witness ==
    /\ source = "increasing"
    /\ Len(storeLog) = MaxInvocations - 1
    /\ cells[write].id = MaxInvocations
    /\ \E r \in Readers : Holding(r) /\ guard[r].id = MaxInvocations

\* C9: while the initial refresh inside load() has not completed, and after it
\* has panicked, no cell has been allocated, no task spawned and no View
\* returned.
C9_InitialLoadFailure ==
    (loadpc \in {"awaiting", "panicked"} /\ invocations >= 1) =>
        /\ \A c \in CellIds : cells[c] = NoValue
        /\ write = NoRef
        /\ taskpc = "none"
        /\ \A h \in Handles : vstate[h] = "free"

\* the initial refresh was invoked and panicked
C9_Witness == loadpc = "panicked" /\ invocations = 1

\* C10: a thread holding a live View can always call read(), and a read() that
\* has been called can always complete, whatever the refresh task and the
\* other readers are doing.
C10_NonBlockingRead ==
    \A r \in Readers :
        /\ rpc[r] = "called" => ENABLED ReadLoad(r)
        /\ \A h \in Live :
              (rpc[r] = "idle" /\ \A q \in Readers : q < r => rpc[q] # "idle")
                  => ENABLED ReadCall(r, h)

\* a read is pending while the task is about to store and another reader
\* holds a Guard
C10_Witness ==
    /\ taskpc = "store"
    /\ \E r1, r2 \in Readers : rpc[r1] = "called" /\ Holding(r2)

\* C11: with a constant refresh source, every read() that was called and has
\* returned with no store in between (within one refresh period) returned the
\* same Arc, the one last published: the same allocation, not just an equal
\* value.
C11_IdleStability ==
    source = "constant" =>
        \A r \in Readers :
            (Holding(r) /\ callStores[r] = Len(storeLog)) => guard[r] = Published

\* two reads of the same period, after a background store, hold the same Arc
\* while the next refresh is in flight
C11_Witness ==
    /\ source = "constant"
    /\ Cardinality(Readers) >= 2
    /\ \A r \in Readers : Holding(r) /\ callStores[r] = Len(storeLog)
    /\ \A r, e \in Readers : guard[r] = guard[e]
    /\ Len(storeLog) >= 1
    /\ taskpc = "awaitRefresh"

\* C12: load() invokes the refresh source once and awaits it; until that
\* value is published there is no cell, no task, no store and no View; the
\* step that publishes it puts exactly that value in the new cell and leaves
\* the spawned loop waiting for its first tick; the View load() then returns
\* refers to that cell; and every further invocation is the loop's, made on a
\* tick.
C12_LoadOrdering ==
    [][/\ loadpc' \in {"builder", "awaiting", "panicked"} =>
            (taskpc' = "none" /\ storeLog' = <<>> /\ write' = NoRef /\ Live' = {})
       /\ loadpc' = "awaiting" => (invocations' = 1 /\ outputs' = <<>>)
       /\ (loadpc = "awaiting" /\ loadpc' = "spawned") =>
            /\ invocations' = 1
            /\ Len(outputs') = 1
            /\ cells'[write'] = ArcNew(1, outputs'[1])
            /\ taskpc' = "awaitTick"
       /\ (loadpc = "spawned" /\ loadpc' = "returned") =>
            (Live' = {1} /\ value'[1] = write)
       /\ Live' # {} => loadpc' = "returned"
       /\ (invocations >= 1 /\ invocations' # invocations) =>
            /\ loadpc \in {"spawned", "returned"}
            /\ taskpc = "awaitTick" /\ taskpc' = "awaitRefresh"
            /\ invocations' = invocations + 1
      ]_vars

\* load() has returned and the first background refresh, started by the first
\* tick, is in flight
C12_Witness ==
    /\ loadpc = "returned"
    /\ invocations = 2
    /\ storeLog = <<>>
    /\ taskpc = "awaitRefresh"
    /\ cells[write] = ArcNew(1, outputs[1])

\* C13: a tick makes one invocation of the refresh source and stores nothing
\* yet; a store is made only by the task holding the result of its latest
\* invocation, which has completed, and puts exactly that result in the cell,
\* one store per background invocation; so the cell always holds the result
\* of the last invocation whose store has run, or the initial value.
C13_TickProtocol ==
    [][/\ (taskpc = "awaitTick" /\ taskpc' = "awaitRefresh") =>
            (invocations' = invocations + 1 /\ cells' = cells /\ storeLog' = storeLog)
       /\ storeLog' # storeLog =>
            /\ taskpc = "store"
            /\ Len(outputs) = invocations
            /\ storeLog' = Append(storeLog, ArcNew(invocations, outputs[invocations]))
            /\ Len(storeLog') = invocations - 1
            /\ cells'[write] = ArcNew(invocations, outputs[invocations])
       /\ write' # NoRef => cells'[write'] = Published'
      ]_vars

\* two ticks have each been followed by the store of their own result
C13_Witness ==
    /\ source = "alternating"
    /\ taskpc = "awaitTick"
    /\ Len(storeLog) = 2
    /\ storeLog[1] = ArcNew(2, outputs[2])
    /\ cells[write] = ArcNew(3, outputs[3])

RefreshUnfinished == taskpc \in {"awaitRefresh", "panicked"}

\* C14: while a background invocation of the refresh source has not completed
\* and after it has panicked, no store has been made for its tick and the
\* cell still holds the value published before; once it has panicked the task
\* never stores or invokes again; and every read() that returns meanwhile
\* returns that previously published value.
C14_RefreshFailureIsolation ==
    [][/\ RefreshUnfinished' =>
            /\ Len(storeLog') = invocations' - 2
            /\ cells'[write'] = Published'
       /\ taskpc = "panicked" =>
            /\ taskpc' = "panicked"
            /\ cells' = cells /\ storeLog' = storeLog
            /\ invocations' = invocations
       /\ RefreshUnfinished =>
            \A r \in Readers :
                (rpc[r] = "called" /\ rpc'[r] = "holding") => guard'[r] = Published
      ]_vars

\* the refresh of the second tick panicked; a reader holds the value of the
\* first tick's store, which is still what a live View reads
C14_Witness ==
    /\ taskpc = "panicked"
    /\ invocations = 3
    /\ Len(storeLog) = 1
    /\ \E r \in Readers : Holding(r) /\ guard[r] = storeLog[1]
    /\ \E h \in Live : ArcSwapLoad(h) = storeLog[1]

\* Idle (0) before Task::spawn, Running (1), Stopped (2)
LoopRank == IF taskpc = "none" THEN 0 ELSE IF LoopStopped THEN 2 ELSE 1

\* C15: the loop only moves Idle -> Running -> Stopped; it stops when the tick
\* stream ends, when it is cancelled, or when its refresh panics; once stopped
\* it stays stopped, never invokes the refresh source and never stores, and a
\* read through a live View still yields the last published value.
C15_LoopLifecycle ==
    [][/\ LoopRank' \in {LoopRank, LoopRank + 1}
       /\ (LoopRank = 1 /\ LoopRank' = 2) =>
            (taskpc' = "done" \/ cancelled' \/ taskpc' = "panicked")
       /\ (taskpc = "awaitTick" /\ taskpc' = "done") => LoopRank' = 2
       /\ (cancelled' /\ taskpc' # "store") => LoopRank' = 2
       /\ LoopRank = 2 =>
            /\ invocations' = invocations
            /\ storeLog' = storeLog
            /\ cells' = cells
       /\ LoopRank' = 2 => \A h \in Live' : ArcSwapLoad(h)' = Published'
      ]_vars

\* the tick stream ended after a store; a View is alive and a reader holds the
\* last stored value
C15_Witness ==
    /\ taskpc = "done"
    /\ Len(storeLog) >= 1
    /\ Live # {}
    /\ \E r \in Readers : Holding(r) /\ guard[r] = Last(storeLog) /\ callStores[r] = Len(storeLog)

\* C16: the content of a cell changes only when load() publishes the initial
\* value and when the task stores; a step of a reader (read(), dropping a
\* Guard) or on a View (clone, drop) changes neither the cell nor the task's
\* position, invocations or stores; the task is spawned only by load(), its
\* `write` is bound once, and every live View refers to that same cell, so
\* there is one writer however many clones exist.
C16_SingleWriter ==
    [][/\ cells' # cells =>
            \/ loadpc = "awaiting" /\ loadpc' = "spawned"
            \/ taskpc = "store" /\ taskpc' = "awaitTick"
       /\ (rpc' # rpc \/ guard' # guard \/ vstate' # vstate \/ value' # value) =>
            /\ cells' = cells
            /\ write' = write
            /\ taskpc' = taskpc
            /\ invocations' = invocations
            /\ storeLog' = storeLog
       /\ (taskpc = "none" /\ taskpc' # "none") => loadpc = "awaiting"
       /\ write' # write => (write = NoRef /\ loadpc = "awaiting")
       /\ \A h \in Live' : value'[h] = write'
      ]_vars

\* the original View has been dropped, its clone is alive, a store has been
\* made and a reader holds a Guard
C16_Witness ==
    /\ Live = {2}
    /\ Len(storeLog) >= 1
    /\ cells[write] = Last(storeLog)
    /\ \E r \in Readers : Holding(r)
    /\ \E r \in Readers : rpc[r] = "called" /\ rview[r] = 2

\* the ArcSwap exists (someone owns it) and holds the Arc with this id
Current(i) == CellOwners > 0 /\ write # NoRef /\ cells[write].id = i

GuardsOf(i) == {r \in Readers : Holding(r) /\ guard[r].id = i}

\* C17: the strong count of every Arc<V> made so far is the number of its
\* owners: the cell if it is the current value, the Guards that refer to it,
\* and the task while it is about to store it. So a value is destroyed (count
\* 0) only when it is not the current value and no Guard refers to it, and no
\* reader ever holds a destroyed value.
C17_SnapshotReclamation ==
    /\ \A i \in 1..Len(outputs) :
          strong[i] = (IF Current(i) THEN 1 ELSE 0)
                      + Cardinality(GuardsOf(i))
                      + (IF pending.id = i THEN 1 ELSE 0)
    /\ \A r \in Readers : Holding(r) => strong[guard[r].id] >= 1
    /\ \A i \in 1..Len(outputs) :
          strong[i] = 0 => (~Current(i) /\ GuardsOf(i) = {})

\* readers hold the initial value and the current one at the same time, each
\* alive, while the value stored in between has been destroyed
C17_Witness ==
    /\ Len(outputs) = 3
    /\ Current(3)
    /\ GuardsOf(1) # {} /\ strong[1] = 1
    /\ GuardsOf(3) # {} /\ strong[3] = 2
    /\ strong[2] = 0

\* C18: what a held Guard refers to never changes, whatever the task stores
\* meanwhile; and a store puts a new Arc in the cell, it never alters an Arc
\* that was published before.
C18_SnapshotImmutable ==
    [][/\ \A r \in Readers :
            (Holding(r) /\ rpc'[r] = "holding") => guard'[r] = guard[r]
       /\ \A j \in 1..Len(storeLog) : storeLog'[j] = storeLog[j]
       /\ (write # NoRef /\ cells'[write] # cells[write]) =>
            cells'[write].id # cells[write].id
      ]_vars

\* a reader still holds the initial value, unchanged, after two stores of
\* different values
C18_Witness ==
    /\ source = "increasing"
    /\ Len(storeLog) = 2
    /\ \E r \in Readers :
        /\ Holding(r) /\ callStores[r] = 0
        /\ guard[r] = ArcNew(1, outputs[1])
        /\ guard[r].val # cells[write].val

\* C19: at most one invocation of the refresh source is unfinished at any
\* time; the loop starts one only when every earlier invocation has completed
\* and its value has been stored; and the stores are in the order of the
\* invocations: the j-th store is of the (j+1)-th invocation.
C19_NoOverlap ==
    [][/\ invocations' - Len(outputs') \in {0, 1}
       /\ invocations' # invocations =>
            /\ Len(outputs) = invocations
            /\ pending = NoValue
            /\ invocations >= 1 => Len(storeLog) = invocations - 1
       /\ \A j \in 1..Len(storeLog') : storeLog'[j].id = j + 1
      ]_vars

\* the third invocation is in flight; the first two have completed and the
\* second has been stored
C19_Witness ==
    /\ taskpc = "awaitRefresh"
    /\ invocations = 3
    /\ Len(outputs) = 2
    /\ Len(storeLog) = 1
    /\ storeLog[1].id = 2

\* C20: while at least one View is alive the task is not cancelled; cloning
\* or dropping a View that leaves one alive changes nothing for the task; and
\* every store is seen through every View that is alive.
C20_PartialDrop ==
    [][/\ Live' # {} => ~cancelled'
       /\ (vstate' # vstate /\ Live' # {}) =>
            (taskpc' = taskpc /\ cancelled' = cancelled /\ cells' = cells)
       /\ storeLog' # storeLog =>
            \A h \in Live' : ArcSwapLoad(h)' = Last(storeLog')
      ]_vars

\* the original View has been dropped, its clone is alive, and the loop is
\* about to make its second store
C20_Witness ==
    /\ Live = {2}
    /\ ~cancelled
    /\ taskpc = "store"
    /\ Len(storeLog) = 1
    /\ ArcSwapLoad(2) = storeLog[1]

TypeOK ==
    /\ loadpc \in {"builder", "awaiting", "spawned", "returned", "panicked"}
    /\ taskpc \in {"none", "awaitTick", "awaitRefresh", "store", "done", "panicked"}
    /\ invocations \in 0..MaxInvocations
    /\ write \in CellIds \cup {NoRef}
====
